---- MODULE Spec2Model ----
(***************************************************************************)
(* Model of the generic data access engine of the controller:              *)
(*   controller/src/db_clients/sql.py   SQLClient (_create, _get, _delete, *)
(*                                      _update, _list and their wrappers) *)
(*   controller/src/schemas/base.py     Base (to_dict, from_orm_object,    *)
(*                                      merge_into_orm_object,             *)
(*                                      to_orm_object)                     *)
(*   controller/src/db/sql.py           the tables (BaseTable, Project,    *)
(*                                      Document, User, ChatSession) and   *)
(*                                      their label tables                 *)
(*                                                                         *)
(* The state is the content of the relational store the client is bound    *)
(* to, the caller-supplied session, and the outcome of the last call.      *)
(* The store outlives the client (create_tables keeps existing tables,     *)
(* checkfirst=True), so the initial state is any well-formed content of    *)
(* the tables, drawn from a small universe of rows.                        *)
(***************************************************************************)
EXTENDS Integers, Sequences, FiniteSets, TLC

VARIABLES
    db,        \* db[t]: the committed rows of table t, in insertion order
    labels,    \* labels[t]: the committed rows of the label table of t
    sess,      \* the session the caller threads through its calls
    opened,    \* sessions the client opened itself (get_db_session(None))
    now,       \* the store's clock (datetime.utcnow), as a counter
    calls,     \* number of verb calls made so far
    call,      \* the last call: verb, table, arguments, the store before it
    resp,      \* what the last call handed back to its caller
    race,      \* two callers inside _create at the same time, step by step
    mapper     \* one application of the object mapper: its input and output

vars == <<db, labels, sess, opened, now, calls, call, resp, race, mapper>>

-----------------------------------------------------------------------------
(* Bounds *)

\* number of verb calls in one behaviour
MaxCalls == 2

-----------------------------------------------------------------------------
(* Values *)

\* Python's None
None == "None"

\* the tables of db/sql.py that are modelled
Types == {"User", "Project", "Document", "ChatSession"}

\* the tables the data-source and dataset routes of the API write to
RouteTypes == {"DataSource", "Dataset"}

\* every table of the store
Tables == Types \cup RouteTypes

\* sqldb.py: the table classes that carry a spec column (Document is modelled)
LegacyTypes == {"sqldb.Document"}

\* the entity names used by callers
Names == {"a", "b"}

\* schemas/base.py: metadata_fields
metadata_fields ==
    {"name", "description", "labels", "owner_name", "created", "updated", "version"}

\* model.py: metadata_fields
legacy_metadata_fields ==
    {"uid", "name", "description", "labels", "owner_id", "created", "updated", "version"}

\* db/sql.py: the columns BaseTable gives every table
BaseColumns ==
    {"id", "name", "version", "description", "owner_id", "date_created", "date_updated"}

\* db/sql.py: the columns each table adds to BaseTable's
ExtraColumns(t) ==
    CASE t = "User"        -> {"full_name", "email", "policy", "features", "is_admin"}
      [] t = "Project"     -> {}
      [] t = "Document"    -> {"project_id", "path", "origin", "data_source_id"}
      [] t = "ChatSession" -> {"workflow_id", "user_id", "history"}
      [] t = "DataSource"  -> {"project_id", "secret_keys", "data_source_type",
                               "database_kwargs"}
      [] t = "Dataset"     -> {"project_id", "credential_id", "sources", "task",
                               "path", "producer"}

\* sqldb.py: the columns of Document
LegacyColumns ==
    {"uid", "version", "name", "description", "created", "updated", "spec",
     "path", "project_id"}

\* obj.__table__.columns
Columns(t) == IF t \in LegacyTypes THEN LegacyColumns ELSE BaseColumns \cup ExtraColumns(t)

\* the DateTime columns; a timestamp is a clock reading, 0 when not yet assigned
DateColumns == {"date_created", "date_updated"}

\* whether value v of column c is NULL
IsNull(c, v) == IF c \in DateColumns THEN v = 0 ELSE v = None

\* db/sql.py: the columns declared Mapped[X] rather than Mapped[Optional[X]]
NotNullColumns(t) ==
    {"id", "name", "version", "date_created"} \cup
    ( CASE t = "User"        -> {"full_name", "email", "is_admin"}
        [] t = "Project"     -> {}
        [] t = "Document"    -> {"project_id", "path", "data_source_id"}
        [] t = "ChatSession" -> {"workflow_id", "user_id"}
        [] t = "DataSource"  -> {"project_id", "data_source_type"}
        [] t = "Dataset"     -> {"project_id", "credential_id"} )

\* db/sql.py: the keyword parameters of each table class's __init__
InitParams(t) ==
    CASE t = "User"        -> {"id", "name", "version", "description", "owner_id",
                               "full_name", "email", "policy", "features",
                               "is_admin", "labels"}
      [] t = "Project"     -> {"id", "name", "version", "description", "owner_id", "labels"}
      [] t = "Document"    -> {"id", "name", "version", "description", "owner_id", "labels"}
      [] t = "ChatSession" -> {"id", "name", "project_id", "version", "description",
                               "owner_id", "labels", "workflow_id", "user_id", "history"}
      [] t = "DataSource"  -> {"id", "name", "version", "description", "owner_id",
                               "project_id", "secret_keys", "data_source_type",
                               "database_kwargs", "labels"}
      \* Dataset declares no __init__ of its own: BaseTable.__init__
      [] t = "Dataset"     -> {"id", "name", "version", "description", "owner_id", "labels"}
      \* sqldb.py declares no __init__ for Document: the declarative constructor
      \* takes the mapped attributes
      [] t \in LegacyTypes  -> LegacyColumns \cup {"labels", "project", "ingestions"}

\* db/sql.py: the parameters of __init__ that have no default
RequiredParams(t) ==
    CASE t = "User"        -> {"id", "name", "version", "description", "owner_id",
                               "full_name", "email"}
      [] t = "Project"     -> {"id", "name"}
      [] t = "Document"    -> {"id", "name"}
      [] t = "ChatSession" -> {"id", "name", "project_id"}
      [] t = "DataSource"  -> {"id", "name", "version", "description", "owner_id",
                               "project_id"}
      [] t = "Dataset"     -> {"id", "name"}
      [] t \in LegacyTypes  -> {}

\* the schema classes of schemas/ that are paired with a table
Schemas == {"Document", "ChatSession"}

\* model.py: the schema classes paired with the tables of sqldb.py
LegacySchemas == {"model.Document"}

\* main.py: the schema classes initdb builds objects of; their files are not
\* among the sources, their fields are the ones initdb passes (declared as in
\* model.py) besides BaseWithMetadata's
BootSchemas == {"User", "Project"}

\* the schema class the data-source routes take; its file is not among the
\* sources either, its fields are the ones initdb passes
RouteSchemas == {"DataSource"}

\* schemas/document.py, schemas/chat_session.py, model.py: the fields of each
\* schema class (BaseWithMetadata's, then the class's own)
SchemaFields(s) ==
    {"name", "description", "created", "updated", "version"} \cup
    ( CASE s = "Document"       -> {"project_id", "path", "origin", "ingestions"}
        [] s = "ChatSession"    -> {"project_id", "workflow_id", "user_id", "history"}
        [] s = "model.Document" -> {"project_id", "path", "origin", "ingestions"}
        [] s = "User"           -> {"email", "full_name", "is_admin"}
        [] s = "Project"        -> {"owner_id"}
        [] s = "DataSource"     -> {"owner_id", "project_id", "data_source_type"} )

\* the fields declared without Optional and without a default
RequiredFields(s) ==
    CASE s = "Document"       -> {"name", "project_id", "path"}
      [] s = "ChatSession"    -> {"name", "project_id", "workflow_id", "user_id"}
      [] s = "model.Document" -> {"name", "project_id", "path"}
      [] s = "User"           -> {"name", "email"}
      [] s = "Project"        -> {"name"}
      [] s = "DataSource"     -> {"name", "project_id", "data_source_type"}

\* fields declared with a non-Optional type: None is not an allowed value
NonNullFields(s) ==
    CASE s = "Document"       -> {"name", "project_id", "path"}
      [] s = "ChatSession"    -> {"name", "project_id", "workflow_id", "user_id", "history"}
      [] s = "model.Document" -> {"name", "project_id", "path"}
      [] s = "User"           -> {"name", "email"}
      [] s = "Project"        -> {"name"}
      [] s = "DataSource"     -> {"name", "project_id", "data_source_type"}

\* Base._top_level_fields: the classes of schemas/ keep the empty default,
\* model.py's Document names path
top_level_fields(s) == IF s = "model.Document" THEN {"path"} ELSE {}

\* the metadata_fields of the module the schema class is defined in
MetadataFields(s) == IF s \in LegacySchemas THEN legacy_metadata_fields ELSE metadata_fields

-----------------------------------------------------------------------------
(* Response envelope: model.py ApiResponse, and a fault raised to the caller *)

NoData == [tag |-> "none", val |-> <<>>]

ObjData(o) == [tag |-> "object", val |-> o]

ListData(l) == [tag |-> "list", val |-> l]

\* ApiResponse(success=..., data=..., error=...): data and error default to None
ApiResponse(success, data, error) ==
    [kind |-> "envelope", success |-> success, data |-> data, error |-> error]

\* an exception that leaves the verb uncaught
Fault(exc) ==
    [kind |-> "fault", success |-> FALSE, data |-> NoData, error |-> exc]

NoResponse == [kind |-> "none", success |-> FALSE, data |-> NoData, error |-> None]

-----------------------------------------------------------------------------
(* Dictionaries and rows *)

\* the dictionary d without the keys in ks
DropKeys(d, ks) == [k \in (DOMAIN d) \ ks |-> d[k]]

\* the dictionary d restricted to the keys in ks
KeepKeys(d, ks) == [k \in (DOMAIN d) \cap ks |-> d[k]]

\* d.update(e)
Updated(d, e) ==
    [k \in (DOMAIN d) \cup (DOMAIN e) |-> IF k \in DOMAIN e THEN e[k] ELSE d[k]]

\* the elements of a sequence
Range(s) == {s[i] : i \in DOMAIN s}

\* relationship(cls.Label): the label rows whose parent is the row's name
\* (Label.parent is a foreign key to <table>.name)
RowLabels(L, t, row) == {l \in L[t] : l.parent = row["name"]}

\* {label.name: label.value for label in obj.labels}
LabelDict(ls) ==
    [n \in {l.name : l \in ls} |-> (CHOOSE l \in ls : l.name = n).value]

\* the rows of table t in store D whose name is n
Named(D, t, n) == {r \in Range(D[t]) : r["name"] = n}

\* session.query(db_class).filter_by(**kwargs): the matching rows, in table order
FilterBy(D, t, kwargs) ==
    SelectSeq(D[t], LAMBDA r : \A k \in DOMAIN kwargs : r[k] = kwargs[k])

\* filter_by raises InvalidRequestError for a keyword that is no attribute of
\* the mapped class
FilterKeysOk(t, kwargs) == DOMAIN kwargs \subseteq Columns(t)

-----------------------------------------------------------------------------
(* Object mapper: schemas/base.py *)

\* the default value a schema class declares for a field
FieldDefault(s, k) ==
    CASE k = "version" -> ""
      [] k = "history" -> "[]"
      [] OTHER         -> None

\* Base.to_dict(drop_none): the fields of the object as a dictionary; the
\* "labels" entry is carried beside the other entries (haslabels says whether
\* the dictionary has the key)
to_dict(obj, drop_none) ==
    [ f         |-> [k \in {j \in DOMAIN obj.f : ~(drop_none /\ obj.f[j] = None)} |-> obj.f[k]],
      haslabels |-> IF drop_none THEN obj.haslabels ELSE TRUE,
      labels    |-> obj.labels ]

\* Base.from_dict -> cls.parse_obj: the pydantic validation of a dictionary
\* against the schema class: required fields present, non-Optional fields not None
Validates(s, d) ==
    /\ RequiredFields(s) \subseteq DOMAIN d
    /\ \A k \in NonNullFields(s) \cap DOMAIN d : d[k] # None

\* the object parse_obj builds: declared fields only (extra keys are ignored),
\* absent fields take their default
ParseObj(s, d, haslabels, lbls) ==
    [ cls       |-> s,
      f         |-> [k \in SchemaFields(s) |->
                        IF k \in DOMAIN d THEN d[k] ELSE FieldDefault(s, k)],
      haslabels |-> haslabels,
      labels    |-> lbls ]

\* Base.from_orm_object(cls, obj): every column of the row, the spec blob merged
\* over them, the label rows as a mapping when there are any
from_orm_object(s, t, row, rowlabels) ==
    LET object_dict == KeepKeys(row, Columns(t) \ {"spec"})
        d           == IF "spec" \in DOMAIN row
                       THEN Updated(object_dict, row["spec"]) ELSE object_dict
        haslabels   == rowlabels # {}
        lbls        == IF haslabels THEN LabelDict(rowlabels) ELSE <<>>
    IN  IF Validates(s, d)
        THEN [ok |-> TRUE,  exc |-> None, obj |-> ParseObj(s, d, haslabels, lbls)]
        ELSE [ok |-> FALSE, exc |-> "ValidationError", obj |-> <<>>]

\* obj_class(**obj_dict): binding the keyword arguments to __init__, then the
\* constructor body (BaseTable.__init__ and the subclass's assignments;
\* ChatSession.__init__ rejects a history message that lacks a field)
Construct(t, kwargs) ==
    IF ~(DOMAIN kwargs \subseteq InitParams(t)) \/ ~(RequiredParams(t) \subseteq DOMAIN kwargs)
    THEN [ok |-> FALSE, exc |-> "TypeError", row |-> <<>>]
    ELSE IF t = "ChatSession" /\ "history" \in DOMAIN kwargs /\ kwargs["history"] = "bad"
    THEN [ok |-> FALSE, exc |-> "ValueError", row |-> <<>>]
    ELSE [ok |-> TRUE, exc |-> None,
          row |-> [c \in Columns(t) |->
                      IF c \in DateColumns THEN 0
                      ELSE IF c \in DOMAIN kwargs THEN kwargs[c] ELSE None]]

\* Base.to_orm_object(obj_class, uuid): the metadata and top-level fields but
\* the timestamps become constructor arguments, every other field goes into
\* the "spec" argument, the labels are appended after construction
to_orm_object(obj, t, uuid) ==
    LET struct   == to_dict(obj, FALSE)
        cols     == (MetadataFields(obj.cls) \cup top_level_fields(obj.cls)) \ {"created", "updated"}
        spec     == DropKeys(struct.f, MetadataFields(obj.cls) \cup top_level_fields(obj.cls))
        obj_dict == Updated(KeepKeys(struct.f, cols), [k \in {"id"} |-> uuid])
        kwargs   == [k \in DOMAIN obj_dict \cup {"spec"} |->
                        IF k = "spec" THEN spec ELSE obj_dict[k]]
        made     == Construct(t, kwargs)
        marker   == IF t = "Project" THEN [n \in {"_GENAI_FACTORY"} |-> "True"] ELSE <<>>
        truthy   == obj.haslabels /\ DOMAIN obj.labels # {}
    IN  IF made.ok
        THEN [ok |-> TRUE, exc |-> None, row |-> made.row,
              labels |-> IF truthy THEN obj.labels ELSE marker]
        ELSE [ok |-> FALSE, exc |-> made.exc, row |-> <<>>, labels |-> <<>>]

\* hasattr(orm_object, "spec"): none of the tables of db/sql.py has a spec
\* column or attribute, the tables of sqldb.py have
HasSpecAttr(t) == "spec" \in Columns(t)

\* update_labels(obj, labels): the collection is cleared, then every name of
\* the input is appended with its value, on the old label object when the
\* name had one and on a new one otherwise
update_labels(old, new) == [n \in DOMAIN new |-> new[n]]

\* the label branch of merge_into_orm_object: the collection is cleared, the
\* labels named in the input are re-appended with their new value (dropped when
\* the value is None), new names are appended
MergedLabels(old, new) ==
    [n \in {k \in DOMAIN new : ~(k \in DOMAIN old /\ new[k] = None)} |-> new[n]]

\* a merge whose label branch runs for every mapping given, the empty one too
\* (if labels is not None)
merge_any_labels(obj, t, row, rowlabels) ==
    LET struct  == to_dict(obj, TRUE)
        cols    == (MetadataFields(obj.cls) \cup top_level_fields(obj.cls)) \ {"created", "updated"}
        written == KeepKeys(struct.f, cols \cap Columns(t))
        old     == LabelDict(rowlabels)
    IN  IF ~HasSpecAttr(t)
        THEN [ok |-> FALSE, exc |-> "AttributeError", row |-> row, labels |-> old]
        ELSE [ok |-> TRUE, exc |-> None,
              row |-> [c \in DOMAIN row |->
                          IF c = "spec" THEN Updated(row["spec"], struct.f)
                          ELSE IF c \in DOMAIN written THEN written[c] ELSE row[c]],
              labels |-> IF struct.haslabels THEN MergedLabels(old, struct.labels) ELSE old]

\* Base.merge_into_orm_object(orm_object): the non-null fields of the object
\* are written onto the row (metadata and top-level fields but the timestamps)
\* and into its spec, the labels are merged when the mapping is non-empty
merge_into_orm_object(obj, t, row, rowlabels) ==
    LET struct  == to_dict(obj, TRUE)
        cols    == (MetadataFields(obj.cls) \cup top_level_fields(obj.cls)) \ {"created", "updated"}
        written == KeepKeys(struct.f, cols \cap Columns(t))
        old     == LabelDict(rowlabels)
        truthy  == struct.haslabels /\ DOMAIN struct.labels # {}
    IN  IF ~HasSpecAttr(t)
        THEN [ok |-> FALSE, exc |-> "AttributeError", row |-> row, labels |-> old]
        ELSE [ok |-> TRUE, exc |-> None,
              \* k not in [metadata_fields + top_level_fields] holds for every
              \* key (the list holds one element, a list): each field is also
              \* written into the spec
              row |-> [c \in DOMAIN row |->
                          \* orm_object.spec or {}: an empty spec is the empty mapping
                          IF c = "spec" THEN Updated(row["spec"], struct.f)
                          ELSE IF c \in DOMAIN written THEN written[c] ELSE row[c]],
              labels |-> IF truthy THEN MergedLabels(old, struct.labels) ELSE old]

-----------------------------------------------------------------------------
(* The session and its unit of work: sqlalchemy, as configured by db/sql.py *)

\* a session with nothing staged: deleted holds the rows marked by
\* session.delete() that wait for the next flush, undone the rows whose
\* deletion a failed flush took back
CleanSession == [state |-> "active", deleted |-> {}, undone |-> {}]

\* a session whose flush failed refuses every statement until rollback() is
\* called on it; no verb calls rollback()
SessionActive(s) == s.state = "active"

\* a delete that takes no row of a relationship with it
CascadeNothing(D, dels) == dels

\* Project.relationship_args (cascade "all, delete-orphan"): deleting a project
\* deletes the rows of its one-to-many relationships
Cascade(D, dels) ==
    dels \cup UNION { { <<t, r>> : r \in
                        { d \in Range(D[t]) :
                            \E x \in dels : x[1] = "Project" /\ d["project_id"] = x[2]["id"] } }
                    : t \in {"Document", "DataSource", "Dataset"} }

\* User.sessions has no delete cascade: deleting a user sets user_id of its
\* chat sessions that stay in the store to NULL
Nullified(D, dels) ==
    { r \in Range(D["ChatSession"]) :
        /\ <<"ChatSession", r>> \notin dels
        /\ \E x \in dels : x[1] = "User" /\ r["user_id"] = x[2]["id"] }

\* session.commit() with rows marked deleted: the rows and, by the cascade of
\* BaseTable.labels, their label rows are deleted in one transaction; a NULL in
\* a column that is not nullable fails the flush and the transaction is rolled back
FlushDelete(D, L, dels) ==
    LET all == Cascade(D, dels)
        gone(t) == {x[2] : x \in {y \in all : y[1] = t}}
    IN  IF Nullified(D, all) # {} /\ "user_id" \in NotNullColumns("ChatSession")
        THEN [ok |-> FALSE, db |-> D, labels |-> L]
        ELSE [ok |-> TRUE,
              db |-> [t \in Tables |-> SelectSeq(D[t], LAMBDA r : r \notin gone(t))],
              labels |-> [t \in Tables |->
                            {l \in L[t] : \A r \in gone(t) : l.parent # r["name"]}]]

\* a failed flush that left the session usable with its marks still staged
FailedFlushKeepsMarks(S, dels) == [state |-> "active", deleted |-> dels, undone |-> dels]

\* the session after a flush failed inside session.commit(): the transaction
\* is rolled back in the store, the marks of the unit of work are reverted, and
\* the session stays inactive (the verbs neither catch the error of a delete
\* or update nor call rollback())
FailedFlush(S, dels) == [state |-> "inactive", deleted |-> {}, undone |-> dels]

\* the next value of a label table's autoincrement key
NextLabelId(Lt) ==
    IF Lt = {} THEN 1 ELSE 1 + (CHOOSE m \in {l.id : l \in Lt} : \A l \in Lt : l.id <= m)

\* label rows when the collection is not cleared first and no old label object
\* is reused: every label of the mapping is one more row
LabelRowsAppended(Lt, parent, lbls) ==
    LET order == CHOOSE f \in [DOMAIN lbls -> 0 .. Cardinality(DOMAIN lbls)] :
                    /\ \A x, y \in DOMAIN lbls : x # y => f[x] # f[y]
                    /\ \A x \in DOMAIN lbls : f[x] < Cardinality(DOMAIN lbls)
    IN  Lt \cup { [id |-> NextLabelId(Lt) + order[n], name |-> n, value |-> lbls[n],
                   parent |-> parent] : n \in DOMAIN lbls }

\* the label rows of one parent after its collection became the mapping lbls:
\* a label that stays keeps its row (and id), a new one gets the next ids
LabelRows(Lt, parent, lbls) ==
    LET mine  == {l \in Lt : l.parent = parent}
        kept  == {[l EXCEPT !.value = lbls[l.name]] : l \in {m \in mine : m.name \in DOMAIN lbls}}
        fresh == (DOMAIN lbls) \ {l.name : l \in mine}
        order == CHOOSE f \in [fresh -> 0 .. Cardinality(fresh)] :
                    /\ \A x, y \in fresh : x # y => f[x] # f[y]
                    /\ \A x \in fresh : f[x] < Cardinality(fresh)
    IN  (Lt \ mine) \cup kept \cup
        { [id |-> NextLabelId(Lt) + order[n], name |-> n, value |-> lbls[n], parent |-> parent]
            : n \in fresh }

\* the column defaults of BaseTable applied on INSERT to the columns left None
WithDefaults(row, t) ==
    [c \in DOMAIN row |->
        IF ~IsNull(c, row[c]) THEN row[c]
        ELSE IF c = "version" THEN ""
        ELSE IF c \in DateColumns THEN now
        ELSE IF c = "is_admin" THEN "False"
        ELSE None]

\* the constraints of the tables: the primary key, the NOT NULL columns, and
\* the label tables' UniqueConstraint("name", "parent") and NOT NULL value.
\* BaseTable.name carries no unique constraint.
ConstraintsHold(Dt, Lt, t) ==
    /\ \A i, j \in DOMAIN Dt : i # j => Dt[i]["id"] # Dt[j]["id"]
    /\ \A i \in DOMAIN Dt : \A c \in NotNullColumns(t) : ~IsNull(c, Dt[i][c])
    /\ \A l, m \in Lt : (l.name = m.name /\ l.parent = m.parent) => l = m
    /\ \A l \in Lt : l.value # None

\* session.add(db_object); session.commit() for a new row: one INSERT for the
\* row and one per label; an IntegrityError rolls the transaction back
FlushInsert(D, L, t, row, lbls) ==
    LET Dt == Append(D[t], WithDefaults(row, t))
        Lt == LabelRows(L[t], row["name"], lbls)
    IN  IF ConstraintsHold(Dt, Lt, t)
        THEN [ok |-> TRUE, db |-> [D EXCEPT ![t] = Dt], labels |-> [L EXCEPT ![t] = Lt]]
        ELSE [ok |-> FALSE, db |-> D, labels |-> L]

\* session.add(obj); session.commit() for a loaded row that was merged into:
\* an UPDATE when a column changed (date_updated has onupdate), the label
\* collection synchronised (orphans deleted)
FlushUpdate(D, L, t, old, new, lbls) ==
    LET stamped == IF KeepKeys(new, Columns(t)) # KeepKeys(old, Columns(t))
                   THEN [new EXCEPT !["date_updated"] = now] ELSE new
        Dt == [i \in DOMAIN D[t] |-> IF D[t][i] = old THEN stamped ELSE D[t][i]]
        Lt == LabelRows(L[t], old["name"], lbls)
    IN  IF ConstraintsHold(Dt, Lt, t)
        THEN [ok |-> TRUE, db |-> [D EXCEPT ![t] = Dt], labels |-> [L EXCEPT ![t] = Lt],
              row |-> stamped]
        ELSE [ok |-> FALSE, db |-> D, labels |-> L, row |-> old]

-----------------------------------------------------------------------------
(* The five generic verbs: db_clients/sql.py.  Each yields the store, the     *)
(* caller's session and the response after the call; S is the session the     *)
(* verb runs on (the caller's, or a new one when the caller passed None).     *)

Outcome(D, L, S, r) == [db |-> D, labels |-> L, sess |-> S, resp |-> r]

\* a failure envelope that carries no error message
NotFoundWithoutError == ApiResponse(FALSE, NoData, None)

\* the failure envelope of _get and _update for a missing row
NotFound == ApiResponse(FALSE, NoData, "NotFound")

\* the failure envelope of _create for an IntegrityError
AlreadyExists == ApiResponse(FALSE, NoData, "AlreadyExists")

\* uuid.uuid4().hex: the k-th identifier drawn, one no row carries
Uuid(k) == <<"n1", "n2", "n3", "n4", "n5", "n6">>[k]

\* the identifier _create draws in the next call
FreshId == Uuid(calls + 1)

\* SQLClient._create
_create(D, L, S, t, obj) ==
    LET made == to_orm_object(obj, t, FreshId)
        done == FlushInsert(D, L, t, made.row, made.labels)
        back == from_orm_object(obj.cls, t, WithDefaults(made.row, t),
                                RowLabels(done.labels, t, made.row))
    IN  IF ~made.ok THEN Outcome(D, L, S, Fault(made.exc))
        ELSE IF ~SessionActive(S) THEN Outcome(D, L, S, Fault("PendingRollbackError"))
        ELSE IF ~done.ok
             THEN Outcome(D, L, FailedFlush(S, {}), AlreadyExists)
        ELSE IF ~back.ok THEN Outcome(done.db, done.labels, S, Fault(back.exc))
        ELSE Outcome(done.db, done.labels, S, ApiResponse(TRUE, ObjData(back.obj), None))

\* a get that takes the first matching row (query.first()) whatever their number
_get_first(D, L, S, t, s, kwargs) ==
    LET rows == FilterBy(D, t, kwargs)
        back == from_orm_object(s, t, rows[1], RowLabels(L, t, rows[1]))
    IN  IF ~SessionActive(S) THEN Outcome(D, L, S, Fault("PendingRollbackError"))
        ELSE IF Len(rows) = 0 THEN Outcome(D, L, S, NotFound)
        ELSE IF ~back.ok THEN Outcome(D, L, S, Fault(back.exc))
        ELSE Outcome(D, L, S, ApiResponse(TRUE, ObjData(back.obj), None))

\* SQLClient._get
_get(D, L, S, t, s, kwargs) ==
    LET rows == FilterBy(D, t, kwargs)
        back == from_orm_object(s, t, rows[1], RowLabels(L, t, rows[1]))
    IN  IF ~SessionActive(S) THEN Outcome(D, L, S, Fault("PendingRollbackError"))
        ELSE IF Len(rows) > 1 THEN Outcome(D, L, S, Fault("MultipleResultsFound"))
        ELSE IF Len(rows) = 0 THEN Outcome(D, L, S, NotFound)
        ELSE IF ~back.ok THEN Outcome(D, L, S, Fault(back.exc))
        ELSE Outcome(D, L, S, ApiResponse(TRUE, ObjData(back.obj), None))

\* SQLClient._delete
_delete(D, L, S, t, kwargs) ==
    LET rows == FilterBy(D, t, kwargs)
        dels == S.deleted \cup {<<t, r>> : r \in Range(rows)}
        done == FlushDelete(D, L, dels)
    IN  IF ~SessionActive(S) THEN Outcome(D, L, S, Fault("PendingRollbackError"))
        ELSE IF ~done.ok
             THEN Outcome(D, L, FailedFlush(S, dels), Fault("IntegrityError"))
        ELSE Outcome(done.db, done.labels, CleanSession, ApiResponse(TRUE, NoData, None))

\* SQLClient._update; api_object is what the wrapper passes as the object
_update(D, L, S, t, api_object, kwargs) ==
    LET rows   == FilterBy(D, t, kwargs)
        merged == merge_into_orm_object(api_object, t, rows[1], RowLabels(L, t, rows[1]))
        done   == FlushUpdate(D, L, t, rows[1], merged.row, merged.labels)
        back   == from_orm_object(api_object.cls, t, done.row,
                                  RowLabels(done.labels, t, done.row))
    IN  IF ~SessionActive(S) THEN Outcome(D, L, S, Fault("PendingRollbackError"))
        ELSE IF Len(rows) > 1 THEN Outcome(D, L, S, Fault("MultipleResultsFound"))
        ELSE IF Len(rows) = 0 THEN Outcome(D, L, S, NotFound)
        ELSE IF api_object.cls \notin Schemas
             THEN Outcome(D, L, S, Fault("AttributeError"))
        ELSE IF ~merged.ok THEN Outcome(D, L, S, Fault(merged.exc))
        ELSE IF ~done.ok
             THEN Outcome(D, L, FailedFlush(S, {}), Fault("IntegrityError"))
        ELSE IF ~back.ok THEN Outcome(done.db, done.labels, S, Fault(back.exc))
        ELSE Outcome(done.db, done.labels, S, ApiResponse(TRUE, ObjData(back.obj), None))

\* Client._process_output for the modes Names and Details
_process_output(L, t, s, rows, mode) ==
    LET back(r) == from_orm_object(s, t, r, RowLabels(L, t, r))
    IN  IF mode = "names"
        THEN [ok |-> TRUE, exc |-> None,
              data |-> ListData([i \in DOMAIN rows |-> rows[i]["name"]])]
        ELSE IF \E i \in DOMAIN rows : ~back(rows[i]).ok
        THEN [ok |-> FALSE, exc |-> "ValidationError", data |-> NoData]
        ELSE [ok |-> TRUE, exc |-> None,
              data |-> ListData([i \in DOMAIN rows |-> back(rows[i]).obj])]

\* SQLClient._list: the filters passed as None are dropped, labels_match is
\* only logged
_list(D, L, S, t, s, mode, labels_match, kwargs) ==
    LET filter_kwargs == [k \in {j \in DOMAIN kwargs : kwargs[j] # None} |-> kwargs[k]]
        rows == FilterBy(D, t, filter_kwargs)
        out  == _process_output(L, t, s, rows, mode)
    IN  IF ~FilterKeysOk(t, filter_kwargs)
        THEN Outcome(D, L, S, Fault("InvalidRequestError"))
        ELSE IF ~SessionActive(S) THEN Outcome(D, L, S, Fault("PendingRollbackError"))
        ELSE IF ~out.ok THEN Outcome(D, L, S, Fault(out.exc))
        ELSE Outcome(D, L, S, ApiResponse(TRUE, out.data, None))

-----------------------------------------------------------------------------
(* What callers pass *)

\* no object (the verb takes none)
NoObject == [cls |-> "none", f |-> <<>>, haslabels |-> FALSE, labels |-> <<>>]

\* the schema objects callers build: Document / ChatSession
\* with the required fields set, a description or none, labels or none
Objects(s) ==
    { [ cls |-> s,
        f   |-> [k \in SchemaFields(s) |->
                    CASE k = "name"        -> n
                      [] k = "description" -> d
                      [] k = "version"     -> ""
                      [] k = "project_id"  -> "p1"
                      [] k = "path"        -> "/x"
                      [] k = "workflow_id" -> "w1"
                      [] k = "user_id"     -> "u1"
                      [] k = "history"     -> "[]"
                      [] k = "email"       -> "mail"
                      [] k = "full_name"   -> "Full Name"
                      [] k = "is_admin"    -> "True"
                      [] k = "owner_id"    -> "u1"
                      [] k = "data_source_type" -> "vector"
                      [] OTHER             -> None],
        haslabels |-> l,
        labels    |-> IF l THEN [x \in {"x"} |-> "9"] ELSE <<>> ]
      : n \in Names, d \in {None, "new"}, l \in IF s \in {"Document", "model.Document", "Project"} THEN BOOLEAN ELSE {FALSE} }

\* what update_session passes to _update as the object: its session argument
SessionArgument == [cls |-> "Session", f |-> <<>>, haslabels |-> FALSE, labels |-> <<>>]

\* the optional filters each list wrapper hands to _list
ListParams(t) ==
    CASE t = "User"        -> {"version", "owner_id", "policy", "is_admin"}
      [] t = "Project"     -> {"version", "owner_id"}
      [] t = "Document"    -> {"version", "owner_id", "project_id"}
      [] t = "ChatSession" -> {"version", "owner_id", "project_id"}

\* the filter arguments callers use: none set, or one of them set
ListFilters(t) ==
    UNION { { [k \in ListParams(t) |-> IF k = key THEN v ELSE None]
                : v \in {None, ""} \cup (IF key = "project_id" THEN {"p1"} ELSE {}) }
            : key \in {"version", "project_id"} \cap ListParams(t) }

\* the labels_match arguments callers use: none, or one label to match
LabelsMatch == {None, "x=1"}

\* the output modes modelled
Modes(t) == IF t \in Schemas THEN {"names", "details"} ELSE {"names"}

-----------------------------------------------------------------------------
(* The store the client finds *)

BaseRow(id, name, version) ==
    [c \in BaseColumns |->
        CASE c = "id"           -> id
          [] c = "name"         -> name
          [] c = "version"      -> version
          [] c \in DateColumns  -> 1
          [] OTHER              -> None]

UserRow(id, name) ==
    Updated(BaseRow(id, name, ""),
            [c \in ExtraColumns("User") |->
                CASE c = "full_name" -> "Full Name"
                  [] c = "email"     -> "mail"
                  [] c = "is_admin"  -> "True"
                  [] OTHER           -> None])

DocumentRow(id, name, version, project) ==
    Updated(BaseRow(id, name, version),
            [c \in ExtraColumns("Document") |->
                CASE c = "project_id"     -> project
                  [] c = "path"           -> "/x"
                  [] c = "data_source_id" -> "ds1"
                  [] OTHER                -> None])

ChatSessionRow(id, name, user) ==
    Updated(BaseRow(id, name, ""),
            [c \in ExtraColumns("ChatSession") |->
                CASE c = "workflow_id" -> "w1"
                  [] c = "user_id"     -> user
                  [] OTHER             -> None])

\* the rows a table may hold initially, in insertion order
Universe(t) ==
    CASE t = "User"        -> << UserRow("u1", "a") >>
      [] t = "Project"     -> << BaseRow("p1", "a", "") >>
      [] t = "Document"    -> << DocumentRow("d1", "a", "", "p1"),
                                 DocumentRow("d2", "a", "v1", "p1"),
                                 DocumentRow("d3", "b", "", "p1") >>
      [] t = "ChatSession" -> << ChatSessionRow("s1", "a", "u1") >>

\* the label rows a label table may hold initially
LabelUniverse(t) ==
    CASE t = "Project"  -> { [id |-> 1, name |-> "_GENAI_FACTORY", value |-> "True", parent |-> "a"] }
      [] t = "Document" -> { [id |-> 1, name |-> "x", value |-> "1", parent |-> "a"],
                             [id |-> 2, name |-> "y", value |-> "2", parent |-> "a"] }
      [] OTHER          -> {}

\* the foreign keys hold: a document's project and a chat session's user are
\* stored, a label's parent is the name of a stored row
WellFormed(D, L) ==
    /\ \A d \in Range(D["Document"]) : \E p \in Range(D["Project"]) : d["project_id"] = p["id"]
    /\ \A c \in Range(D["ChatSession"]) : \E u \in Range(D["User"]) : c["user_id"] = u["id"]
    /\ \A t \in Types : \A l \in L[t] : \E r \in Range(D[t]) : l.parent = r["name"]
    /\ \A t \in Types : ConstraintsHold(D[t], L[t], t)

\* some of the rows of the universe, each table in insertion order, with the
\* labels of the rows that are kept
StoreInit ==
    /\ \E keep \in [Types -> SUBSET (1 .. 3)] :
          /\ \A t \in Types : keep[t] \subseteq DOMAIN Universe(t)
          /\ db = [t \in Tables |->
                      IF t \in Types
                      THEN SelectSeq(Universe(t), LAMBDA r : \E i \in keep[t] : Universe(t)[i] = r)
                      ELSE <<>>]
    /\ labels = [t \in Tables |->
                   {l \in LabelUniverse(t) : \E r \in Range(db[t]) : l.parent = r["name"]}]
    /\ WellFormed(db, labels)

\* no call made yet
CallerInit ==
    /\ sess = CleanSession
    /\ opened = 0
    /\ now = 2
    /\ calls = 0
    /\ call = [verb |-> "none", type |-> "none", name |-> None, shared |-> FALSE,
               obj |-> NoObject, mode |-> None, labels_match |-> None,
               filters |-> <<>>,
               db |-> db, labels |-> labels, sess |-> sess, opened |-> opened]
    /\ resp = NoResponse

\* nobody inside _create
NoRace == [type |-> "none"]

\* the mapper not applied
NoMapping == [op |-> "none"]

Init ==
    /\ StoreInit
    /\ CallerInit
    /\ race = NoRace
    /\ mapper = NoMapping

-----------------------------------------------------------------------------
(* The calls: the wrappers of SQLClient, each one verb on one table *)

\* a verb that always takes a session of its own from the session maker
AlwaysOwnSession(shared) == CleanSession

\* the session a verb runs on: get_db_session(session)
SessionOf(shared) == IF shared THEN sess ELSE CleanSession

\* what every call does around its verb: the outcome is stored, the session
\* the client opened is left open, time passes
Returns(out, verb, t, name, obj, mode, labels_match, filters, shared) ==
    /\ db' = out.db
    /\ labels' = out.labels
    /\ sess' = IF shared THEN out.sess ELSE sess
    /\ opened' = IF shared THEN opened ELSE opened + 1
    /\ now' = now + 1
    /\ calls' = calls + 1
    /\ call' = [verb |-> verb, type |-> t, name |-> name, shared |-> shared,
                obj |-> obj, mode |-> mode, labels_match |-> labels_match,
                filters |-> filters,
                db |-> db, labels |-> labels, sess |-> sess, opened |-> opened]
    /\ resp' = out.resp
    /\ UNCHANGED <<race, mapper>>

\* create_document, create_session, create_user, create_project
Create(t, obj, shared) ==
    /\ calls < MaxCalls
    /\ Returns(_create(db, labels, SessionOf(shared), t, obj),
               "create", t, obj.f["name"], obj, None, None, <<>>, shared)

\* get_document, get_session
Get(t, name, shared) ==
    /\ calls < MaxCalls
    /\ Returns(_get(db, labels, SessionOf(shared), t, t, [k \in {"name"} |-> name]),
               "get", t, name, NoObject, None, None, <<>>, shared)

\* delete_user, delete_project, delete_document, delete_session
Delete(t, name, shared) ==
    /\ calls < MaxCalls
    /\ Returns(_delete(db, labels, SessionOf(shared), t, [k \in {"name"} |-> name]),
               "delete", t, name, NoObject, None, None, <<>>, shared)

\* update_document passes the document; update_session passes its session
\* argument in the place of the chat session
Update(t, obj, shared) ==
    /\ calls < MaxCalls
    /\ Returns(_update(db, labels, SessionOf(shared), t,
                       IF t = "ChatSession" THEN SessionArgument ELSE obj,
                       [k \in {"name"} |-> obj.f["name"]]),
               "update", t, obj.f["name"], obj, None, None, <<>>, shared)

\* list_users, list_projects, list_documents, list_sessions
List(t, mode, labels_match, filters, shared) ==
    /\ calls < MaxCalls
    /\ Returns(_list(db, labels, SessionOf(shared), t, t, mode, labels_match, filters),
               "list", t, None, NoObject, mode, labels_match, filters, shared)

\* api/endpoints/data_sources.py: the table of the client verb that the POST
\* route of an entity kind calls (client.create_dataset for /data-sources/)
PostTable(kind) == "Dataset"

\* POST /data-sources/ with a DataSource object
PostDataSource(obj, shared) ==
    /\ calls < MaxCalls
    /\ Returns(_create(db, labels, SessionOf(shared), PostTable("DataSource"), obj),
               "post", "DataSource", obj.f["name"], obj, None, None, <<>>, shared)

Next ==
    \/ \E shared \in BOOLEAN : \E obj \in Objects("DataSource") : PostDataSource(obj, shared)
    \/ \E t \in Schemas \cup BootSchemas, shared \in BOOLEAN :
          \E obj \in Objects(t) : Create(t, obj, shared)
    \/ \E t \in Schemas, name \in Names, shared \in BOOLEAN : Get(t, name, shared)
    \/ \E t \in Types, name \in Names, shared \in BOOLEAN : Delete(t, name, shared)
    \/ \E t \in Schemas, shared \in BOOLEAN : \E obj \in Objects(t) : Update(t, obj, shared)
    \/ \E t \in Types, shared \in BOOLEAN :
          \E mode \in Modes(t), labels_match \in LabelsMatch, filters \in ListFilters(t) :
             List(t, mode, labels_match, filters, shared)

Spec == Init /\ [][Next]_vars

-----------------------------------------------------------------------------
(* Two callers inside _create at the same time, each on a session of its     *)
(* own.  The steps of _create: the row is built (to_orm_object), added to    *)
(* the session (session.add), then committed and mapped back.                *)

Callers == {1, 2}

\* the two calls name the same table and the same name
RaceInit ==
    /\ StoreInit
    /\ CallerInit
    /\ mapper = NoMapping
    /\ \E t \in Schemas, n \in Names :
          \E o1, o2 \in {o \in Objects(t) : o.f["name"] = n} :
             race = [ type   |-> t,
                      name   |-> n,
                      stored |-> Cardinality(Named(db, t, n)),
                      obj    |-> <<o1, o2>>,
                      pc     |-> <<"start", "start">>,
                      made   |-> <<NoObject, NoObject>>,
                      resp   |-> <<NoResponse, NoResponse>> ]

\* the next step of caller p inside SQLClient._create
CreateStep(p) ==
    LET t    == race.type
        made == to_orm_object(race.obj[p], t, Uuid(p))
        mine == race.made[p]
        done == FlushInsert(db, labels, t, mine.row, mine.labels)
        back == from_orm_object(race.obj[p].cls, t, WithDefaults(mine.row, t),
                                RowLabels(done.labels, t, mine.row))
        goes(pc, m, r) ==
            race' = [race EXCEPT !.pc[p] = pc, !.made[p] = m, !.resp[p] = r]
    IN  /\ race.pc[p] # "done"
        /\ CASE race.pc[p] = "start" ->
                   /\ IF made.ok THEN goes("built", made, NoResponse)
                                 ELSE goes("done", mine, Fault(made.exc))
                   /\ UNCHANGED <<db, labels>>
              [] race.pc[p] = "built" ->
                   /\ goes("added", mine, NoResponse)
                   /\ UNCHANGED <<db, labels>>
              [] race.pc[p] = "added" ->
                   /\ db' = done.db
                   /\ labels' = done.labels
                   /\ goes("done", mine,
                           IF ~done.ok THEN AlreadyExists
                           ELSE IF ~back.ok THEN Fault(back.exc)
                           ELSE ApiResponse(TRUE, ObjData(back.obj), None))
        /\ UNCHANGED <<sess, opened, now, calls, call, resp, mapper>>

RaceNext == \E p \in Callers : CreateStep(p)

SpecRace == RaceInit /\ [][RaceNext]_vars

-----------------------------------------------------------------------------
(* The object mapper on its own: one object, one row, one application.       *)

\* a row of sqldb.py's Document
LegacyRow(version, spec) ==
    [c \in LegacyColumns |->
        CASE c = "uid"         -> "d9"
          [] c = "version"     -> version
          [] c = "name"        -> "a"
          [] c = "description" -> ""
          [] c = "spec"        -> spec
          [] c = "path"        -> "/x"
          [] c = "project_id"  -> "p1"
          [] OTHER             -> "t1"]

\* the schema class and the row class that meet in the mapper
Pairings ==
    { <<"Document", "Document">>, <<"ChatSession", "ChatSession">>,
      <<"model.Document", "sqldb.Document">>, <<"Document", "sqldb.Document">> }

\* the rows of a class the mapper is applied to
RowsOf(t) ==
    IF t \in LegacyTypes
    THEN {LegacyRow(v, sp) : v \in {"", "v1"}, sp \in {<<>>, [k \in {"origin"} |-> "web"]}}
    ELSE Range(Universe(t))

\* the label collections such a row may carry
LabelsOf(t, r) ==
    IF t \in LegacyTypes
    THEN {{}, LabelUniverse("Document")}
    ELSE {{l \in LabelUniverse(t) : l.parent = r["name"]}}

\* an object whose client set the two timestamps (created, updated are
\* Optional fields of BaseWithMetadata, open to the client like any other)
Stamped(o) == [o EXCEPT !.f = [k \in DOMAIN o.f |->
                                   IF k \in {"created", "updated"} THEN "c0" ELSE o.f[k]]]

\* the label mappings given to a label update
LabelMaps ==
    { <<>>,
      [n \in {"y", "z"} |-> IF n = "y" THEN "3" ELSE "4"],
      [n \in {"y"} |-> None],
      [n \in {"z"} |-> None] }

\* an object whose labels are the mapping m
Labelled(o, m) == [o EXCEPT !.haslabels = TRUE, !.labels = m]

\* the objects of a class the mapper is applied to
MapperObjects(s) ==
    Objects(s) \cup {Stamped(o) : o \in Objects(s)}
               \cup {Labelled(o, m) : o \in Objects(s), m \in LabelMaps}

MapperInputs ==
    UNION { UNION { { [op |-> "input", obj |-> o, type |-> pr[2], row |-> r,
                       labels |-> l, out |-> <<>>]
                       : o \in MapperObjects(pr[1]), l \in LabelsOf(pr[2], r) }
                    : r \in RowsOf(pr[2]) }
            : pr \in Pairings }

MapperInit ==
    /\ db = [t \in Tables |-> <<>>]
    /\ labels = [t \in Tables |-> {}]
    /\ CallerInit
    /\ race = NoRace
    /\ mapper \in MapperInputs

\* obj.merge_into_orm_object(row)
Merge ==
    /\ mapper.op = "input"
    /\ mapper' = [mapper EXCEPT
                     !.op = "merge",
                     !.out = merge_into_orm_object(mapper.obj, mapper.type,
                                                   mapper.row, mapper.labels)]
    /\ UNCHANGED <<db, labels, sess, opened, now, calls, call, resp, race>>

\* cls.from_orm_object(obj.to_orm_object(row_class, uuid)), for the classes of
\* schemas/ and the tables of db/sql.py that SQLClient pairs them with
RoundTrip ==
    LET made == to_orm_object(mapper.obj, mapper.type, FreshId)
        back == from_orm_object(mapper.obj.cls, mapper.type, made.row,
                                LabelRows({}, made.row["name"], made.labels))
    IN  /\ mapper.op = "input"
        /\ mapper.obj.cls \in Schemas
        /\ mapper.type \in Types
        /\ mapper' = [mapper EXCEPT
                         !.op = "roundtrip",
                         !.out = IF made.ok THEN back
                                 ELSE [ok |-> FALSE, exc |-> made.exc, obj |-> <<>>]]
        /\ UNCHANGED <<db, labels, sess, opened, now, calls, call, resp, race>>

\* update_labels(row, obj.labels)
UpdateLabels ==
    /\ mapper.op = "input"
    /\ mapper.obj.haslabels
    /\ mapper' = [mapper EXCEPT
                     !.op = "update_labels",
                     !.out = [ok |-> TRUE, exc |-> None, row |-> mapper.row,
                              labels |-> update_labels(LabelDict(mapper.labels),
                                                       mapper.obj.labels)]]
    /\ UNCHANGED <<db, labels, sess, opened, now, calls, call, resp, race>>

MapperNext == Merge \/ RoundTrip \/ UpdateLabels

SpecMapper == MapperInit /\ [][MapperNext]_vars

-----------------------------------------------------------------------------
(* Properties *)

\* the last call returned an envelope
Enveloped == resp.kind = "envelope"

\* the last call returned the success envelope
Succeeded == Enveloped /\ resp.success

\* the rows of table t in store D whose name is not n
NotNamed(D, t, n) == {r \in Range(D[t]) : r["name"] # n}

\* the label rows of table t in L that belong to a row whose name is not n
LabelsElsewhere(L, t, n) == {l \in L[t] : l.parent # n}

\* C1: a create whose name is already the name of a stored row of that type
\* returns the AlreadyExists failure envelope, and the rows and labels of the
\* store are the same after the call as before it (so no second row of that
\* name exists).
C1_CreateOfStoredNameFails ==
    (call.verb = "create" /\ Named(call.db, call.type, call.name) # {})
        => /\ resp = AlreadyExists
           /\ db = call.db
           /\ labels = call.labels

\* C2: when two callers create the same name in the same table at the same
\* time, each on its own session, and no row of that name was stored, then once
\* both have returned exactly one got the success envelope, the other got
\* AlreadyExists, and the store holds exactly one row of that name.
C2_ExactlyOneCreateWins ==
    (race.type # "none" /\ race.stored = 0 /\ \A p \in Callers : race.pc[p] = "done")
        => /\ \E p \in Callers : \E q \in Callers \ {p} :
                 /\ race.resp[p].kind = "envelope" /\ race.resp[p].success
                 /\ race.resp[q] = AlreadyExists
           /\ Cardinality(Named(db, race.type, race.name)) = 1

\* C3: a create, update or delete that fails leaves the committed rows and
\* labels as they were before the call; and a later call on the session a
\* failed call ran on does not commit what the failed call had staged: every
\* row whose deletion the failed call took back, and its labels, is still
\* stored after a later call on that session that does not itself name the row.
C3_FailedCallRollsBack ==
    /\ (call.verb \in {"create", "update", "delete"} /\ ~Succeeded)
          => (db = call.db /\ labels = call.labels)
    /\ call.shared
          => \A x \in call.sess.undone :
                (/\ x[2] \in Range(call.db[x[1]])
                 /\ ~(call.verb = "delete" /\ call.type = x[1]
                        /\ call.name = x[2]["name"]))
                   => /\ x[2] \in Range(db[x[1]])
                      /\ RowLabels(labels, x[1], x[2]) = RowLabels(call.labels, x[1], x[2])

\* a delete failed on the caller's session and the caller made another
\* writing call on that session
C3_Witness ==
    /\ call.shared
    /\ call.sess.undone # {}
    /\ call.verb \in {"create", "update", "delete"}
    /\ ~Succeeded

\* C4: merging an object that carries no labels (it sets name and description
\* besides what its class requires) into the stored row of its name leaves
\* every column but description and the update timestamp, every stored key of
\* the spec bag and the labels of the row as they were.
C4_PartialUpdateKeepsTheRest ==
    (mapper.op = "merge" /\ ~mapper.obj.haslabels
        /\ mapper.obj.f["name"] = mapper.row["name"])
        => /\ \A c \in (DOMAIN mapper.row) \ {"description", "date_updated", "updated", "spec"} :
                 mapper.out.row[c] = mapper.row[c]
           /\ "spec" \in DOMAIN mapper.row
                 => \A k \in DOMAIN mapper.row["spec"] :
                       /\ k \in DOMAIN mapper.out.row["spec"]
                       /\ mapper.out.row["spec"][k] = mapper.row["spec"][k]
           /\ mapper.out.labels = LabelDict(mapper.labels)

\* C5: mapping an object to a row and the row back yields an object that
\* agrees with the first on every field it set (the two timestamps aside) and
\* on its labels.
C5_RoundTrip ==
    mapper.op = "roundtrip"
        => /\ mapper.out.ok
           /\ \A k \in (DOMAIN mapper.obj.f) \ {"created", "updated"} :
                 mapper.obj.f[k] # None => mapper.out.obj.f[k] = mapper.obj.f[k]
           /\ mapper.obj.haslabels
                 => (mapper.out.obj.haslabels /\ mapper.out.obj.labels = mapper.obj.labels)

\* C6: a delete returns the success envelope; afterwards no row of the table
\* has the name and no label of such a row remains, and the rows of the table
\* with another name, and their labels, are as before.
C6_DeleteAlwaysSucceeds ==
    call.verb = "delete"
        => /\ resp = ApiResponse(TRUE, NoData, None)
           /\ Named(db, call.type, call.name) = {}
           /\ \A l \in labels[call.type] : l.parent # call.name
           /\ NotNamed(db, call.type, call.name) = NotNamed(call.db, call.type, call.name)
           /\ LabelsElsewhere(labels, call.type, call.name)
                 = LabelsElsewhere(call.labels, call.type, call.name)

\* C7: a get returns the NotFound failure envelope when no stored row has the
\* name, and the success envelope with the object of the row when exactly one
\* stored row has it.
C7_GetFindsOrNotFound ==
    call.verb = "get"
        => /\ Named(call.db, call.type, call.name) = {} => resp = NotFound
           /\ Cardinality(Named(call.db, call.type, call.name)) = 1
                 => /\ Succeeded
                    /\ resp.data.tag = "object"
                    /\ resp.data.val.f["name"] = call.name

\* C8: an update that names no stored row returns the NotFound failure
\* envelope and writes nothing: the rows and labels of the store are as before.
C8_UpdateOfMissingRow ==
    (call.verb = "update" /\ Named(call.db, call.type, call.name) = {})
        => /\ resp = NotFound
           /\ db = call.db
           /\ labels = call.labels

\* the row a get names fails the validation of its schema class
StoredRowInvalid ==
    /\ call.verb = "get"
    /\ \E r \in Named(call.db, call.type, call.name) :
          ~from_orm_object(call.type, call.type, r, RowLabels(call.labels, call.type, r)).ok

\* the row a get or an update names is absent
TargetAbsent ==
    /\ call.verb \in {"get", "update"}
    /\ Named(call.db, call.type, call.name) = {}

\* C9: a call whose target row is absent, or whose row fails validation when
\* the typed object is built from it, ends by returning an envelope, never by
\* raising a fault.
C9_ErrorsAreEnveloped ==
    (TargetAbsent \/ StoredRowInvalid) => Enveloped

\* C10: every envelope a verb returns with success = false has no data and an
\* error message, and every envelope with success = true has no error.
C10_EnvelopeContract ==
    Enveloped
        => /\ ~resp.success => (resp.data = NoData /\ resp.error # None)
           /\ resp.success => resp.error = None

\* a verb returned a failure envelope
C10_Witness == Enveloped /\ ~resp.success /\ call.verb \in {"get", "update"}

\* the filters of the last call impose no constraint
Unfiltered == \A k \in DOMAIN call.filters : call.filters[k] = None

\* the names of the rows of a table, in insertion order
NamesOf(rows) == [i \in DOMAIN rows |-> rows[i]["name"]]

\* C11: a list in the mode Names with no filter returns the success envelope
\* holding exactly the names of the rows stored for the type, one entry per
\* row, in insertion order.
C11_ListOfNames ==
    (call.verb = "list" /\ call.mode = "names" /\ Unfiltered)
        => resp = ApiResponse(TRUE, ListData(NamesOf(call.db[call.type])), None)

\* the rows of a table whose column equals the value for every filter of the
\* last call that is not None, in insertion order
Matching(rows) ==
    SelectSeq(rows, LAMBDA r :
        \A k \in DOMAIN call.filters :
            call.filters[k] # None => (k \in DOMAIN r /\ r[k] = call.filters[k]))

\* the names a list response holds, whatever its mode
ListedNames ==
    IF call.mode = "names" THEN resp.data.val
    ELSE [i \in DOMAIN resp.data.val |-> resp.data.val[i].f["name"]]

\* C12: a list returns exactly the stored rows whose columns equal every filter
\* given with a value other than None, in insertion order; a filter given as
\* None imposes no constraint, and labels_match does not change the result.
C12_ListAppliesFilters ==
    call.verb = "list"
        => /\ Succeeded
           /\ resp.data.tag = "list"
           /\ ListedNames = NamesOf(Matching(call.db[call.type]))

\* C13: an owner_id given on create is stored in the owner_id column of the
\* new row (so a list filtered by that owner_id returns the entity and get
\* returns the owner_id).
C13_OwnerIdIsAColumn ==
    (/\ call.verb = "create"
     /\ "owner_id" \in DOMAIN call.obj.f
     /\ Named(call.db, call.type, call.name) = {})
        => /\ Succeeded
           /\ \E r \in Named(db, call.type, call.name) :
                 r["owner_id"] = call.obj.f["owner_id"]

\* the ids of the rows of a table
IdsOf(rows) == {rows[i]["id"] : i \in DOMAIN rows}

\* C14: a create of a name not yet stored succeeds and gives the new row an id
\* that no stored row of the type had, and the object it returns carries that
\* id; the object a successful get returns carries the id of the row it
\* names; and no two rows of one type share an id.
C14_GeneratedIds ==
    /\ (call.verb = "create" /\ Named(call.db, call.type, call.name) = {})
          => /\ Succeeded
             /\ \E r \in Named(db, call.type, call.name) :
                   /\ r["id"] \notin IdsOf(call.db[call.type])
                   /\ "id" \in DOMAIN resp.data.val.f
                   /\ resp.data.val.f["id"] = r["id"]
    /\ (call.verb = "get" /\ Succeeded)
          => /\ "id" \in DOMAIN resp.data.val.f
             /\ \E r \in Named(call.db, call.type, call.name) :
                   resp.data.val.f["id"] = r["id"]
    /\ \A t \in Types : Cardinality(IdsOf(db[t])) = Len(db[t])

\* C15: a row that is stored before and after a call keeps its date_created,
\* and an update of the one stored row of a name leaves that row with
\* date_updated equal to the time of the update (the clock reading the call
\* was made at).
C15_Timestamps ==
    /\ \A t \in Types : \A r \in Range(call.db[t]) : \A q \in Range(db[t]) :
          q["id"] = r["id"] => q["date_created"] = r["date_created"]
    /\ (call.verb = "update" /\ Cardinality(Named(call.db, call.type, call.name)) = 1)
          => \E q \in Named(db, call.type, call.name) : q["date_updated"] = now - 1

\* C16: every stored row of an entity that belongs to a project (Document is
\* the one modelled) has a project_id that is the id of exactly one stored
\* Project row, after any sequence of calls, delete_project included.
C16_ProjectOwnership ==
    \A d \in Range(db["Document"]) :
        Cardinality({p \in Range(db["Project"]) : p["id"] = d["project_id"]}) = 1

\* a project that had documents was deleted
C16_Witness ==
    /\ call.verb = "delete"
    /\ call.type = "Project"
    /\ Succeeded
    /\ \E p \in Named(call.db, "Project", call.name) :
          \E d \in Range(call.db["Document"]) : d["project_id"] = p["id"]

\* C17: the bootstrap sequence runs on one shared session from an empty store
\* and every step of it succeeds; its first step, create_user, stores the user
\* and returns success, so that the steps after it can read the user's id.
C17_BootstrapSucceeds ==
    (/\ call.verb = "create"
     /\ call.type = "User"
     /\ call.shared
     /\ call.sess = CleanSession
     /\ \A t \in Types : call.db[t] = <<>>)
        => /\ Succeeded
           /\ Named(db, "User", call.name) # {}

\* the recorded call run on the session S over the store as the call found it
OnSession(S) ==
    CASE call.verb = "create" -> _create(call.db, call.labels, S, call.type, call.obj)
      [] call.verb = "get"    -> _get(call.db, call.labels, S, call.type, call.type,
                                      [k \in {"name"} |-> call.name])
      [] call.verb = "delete" -> _delete(call.db, call.labels, S, call.type,
                                         [k \in {"name"} |-> call.name])
      [] call.verb = "update" -> _update(call.db, call.labels, S, call.type,
                                         IF call.type = "ChatSession"
                                         THEN SessionArgument ELSE call.obj,
                                         [k \in {"name"} |-> call.name])
      [] call.verb = "list"   -> _list(call.db, call.labels, S, call.type, call.type,
                                       call.mode, call.labels_match, call.filters)
      [] call.verb = "post"   -> _create(call.db, call.labels, S, PostTable(call.type),
                                         call.obj)

ColumnNames == MetadataFields(mapper.obj.cls) \cup top_level_fields(mapper.obj.cls)

\* C19: after an object is merged into a row that has a spec blob, the blob is
\* the blob of before overridden by exactly the non-null fields of the object
\* that are neither metadata nor top-level fields, and no metadata or
\* top-level field name is a key of it.
C19_SpecBlobAfterMerge ==
    (mapper.op = "merge" /\ HasSpecAttr(mapper.type))
        => /\ mapper.out.ok
           /\ mapper.out.row["spec"]
                 = Updated(mapper.row["spec"],
                           DropKeys(to_dict(mapper.obj, TRUE).f, ColumnNames))
           /\ (DOMAIN mapper.out.row["spec"]) \cap ColumnNames = {}

\* what a get or a list reports for the row the merge left
Reported ==
    from_orm_object(mapper.obj.cls, mapper.type, mapper.out.row,
                    LabelRows({}, mapper.out.row["name"], mapper.out.labels))

\* C20: the two timestamps are not client-writable: after an object that
\* carries created and updated values of its own is merged into a row, the
\* row's timestamps are the ones it had, and the object reported for the row
\* carries the row's timestamps, not the client's.
C20_TimestampsNotClientWritable ==
    (/\ mapper.op = "merge"
     /\ HasSpecAttr(mapper.type)
     /\ mapper.obj.f["created"] # None)
        => /\ mapper.out.ok
           /\ \A c \in {"created", "updated"} : mapper.out.row[c] = mapper.row[c]
           /\ Reported.ok
           /\ \A c \in {"created", "updated"} : Reported.obj.f[c] = mapper.out.row[c]

\* a label update was applied: update_labels, or a merge of an object
LabelUpdate == mapper.op \in {"merge", "update_labels"}

\* the mapping the label update was given (none when the object has no labels)
GivenLabels == IF mapper.obj.haslabels THEN mapper.obj.labels ELSE <<>>

\* C21: after a label update with a non-empty mapping whose values are all
\* non-null, the entity has, for every key of the mapping, a label of that
\* name with the mapping's value.
C21_LabelUpdateSetsGivenLabels ==
    (/\ LabelUpdate
     /\ DOMAIN GivenLabels # {}
     /\ \A k \in DOMAIN GivenLabels : GivenLabels[k] # None)
        => \A k \in DOMAIN GivenLabels :
              /\ k \in DOMAIN mapper.out.labels
              /\ mapper.out.labels[k] = GivenLabels[k]

\* the labels of the row before the label update, as a mapping
LabelsBefore == LabelDict(mapper.labels)

\* C22: a label update leaves every existing label whose name is not a key of
\* the given mapping attached to the entity with the value it had.
C22_UnnamedLabelsStay ==
    LabelUpdate
        => \A k \in (DOMAIN LabelsBefore) \ (DOMAIN GivenLabels) :
              /\ k \in DOMAIN mapper.out.labels
              /\ mapper.out.labels[k] = LabelsBefore[k]

\* C23: a null value in the given mapping deletes: after an object is merged
\* into a row (one the merge runs on, having a spec attribute), the row has no
\* label of a name the mapping gives a null value, whether or not it had one
\* before, and none of its labels has a null value.
C23_NullValueDeletes ==
    (mapper.op = "merge" /\ HasSpecAttr(mapper.type))
        => /\ \A k \in DOMAIN GivenLabels :
                 GivenLabels[k] = None => k \notin DOMAIN mapper.out.labels
           /\ \A k \in DOMAIN mapper.out.labels : mapper.out.labels[k] # None

\* the label rows of the table once the label update is flushed
RowsAfter == LabelRows(mapper.labels, mapper.row["name"], mapper.out.labels)

\* C24: the labels of an entity form a mapping: after a label update no two
\* label rows of the label table share the pair (name, parent), so no entity
\* has two labels of one name.
C24_LabelsFormAMapping ==
    LabelUpdate
        => \A l, m \in RowsAfter :
              (l.name = m.name /\ l.parent = m.parent) => l = m

\* a label update that names a label the row has and one it has not
C24_Witness ==
    /\ LabelUpdate
    /\ mapper.out.ok
    /\ \E k \in DOMAIN GivenLabels : k \in DOMAIN LabelsBefore
    /\ \E k \in DOMAIN GivenLabels : k \notin DOMAIN LabelsBefore
    /\ DOMAIN mapper.out.labels = DOMAIN GivenLabels

\* the last call was a get or an update whose name several stored rows have
SeveralMatch ==
    /\ call.verb \in {"get", "update"}
    /\ Cardinality(Named(call.db, call.type, call.name)) > 1

\* the session the last call ran on
UsedSession == IF call.shared THEN call.sess ELSE CleanSession

\* C25: a get or an update whose filter matches more than one stored row ends
\* in an uncaught fault (MultipleResultsFound of one_or_none, unless the
\* session already refuses every statement), never in an envelope, and the
\* store is as it was.
C25_SeveralMatchesRaise ==
    SeveralMatch
        => /\ resp = Fault(IF SessionActive(UsedSession)
                           THEN "MultipleResultsFound" ELSE "PendingRollbackError")
           /\ db = call.db
           /\ labels = call.labels

\* a get or an update met several rows of its name on a working session
C25_Witness ==
    /\ SeveralMatch
    /\ SessionActive(UsedSession)
    /\ resp.error = "MultipleResultsFound"

\* C26: update_session on a stored chat session of the object's name merges
\* the object into the row and returns success with the updated chat session,
\* as the other update wrappers do for their entities.
C26_UpdateSessionMerges ==
    (/\ call.verb = "update"
     /\ call.type = "ChatSession"
     /\ SessionActive(UsedSession)
     /\ Cardinality(Named(call.db, call.type, call.name)) = 1)
        => /\ Succeeded
           /\ resp.data.tag = "object"
           /\ resp.data.val.f["name"] = call.name
           /\ call.obj.f["description"] # None
                 => \A r \in Named(db, call.type, call.name) :
                       r["description"] = call.obj.f["description"]

\* C27: merging an object that carries an empty label mapping, or no labels,
\* leaves the labels of the row exactly as they were.
C27_EmptyMappingKeepsLabels ==
    (mapper.op = "merge" /\ DOMAIN GivenLabels = {})
        => mapper.out.labels = LabelsBefore

\* an object with the empty mapping was merged into a row that has labels
C27_Witness ==
    /\ mapper.op = "merge"
    /\ mapper.out.ok
    /\ mapper.obj.haslabels
    /\ DOMAIN mapper.obj.labels = {}
    /\ DOMAIN LabelsBefore # {}

\* C28: create_project of a name not stored yet commits a project row that
\* carries the marker label _GENAI_FACTORY, whether the project object has
\* labels of its own or none.
C28_ProjectCarriesMarker ==
    (/\ call.verb = "create"
     /\ call.type = "Project"
     /\ SessionActive(UsedSession)
     /\ Named(call.db, "Project", call.name) = {})
        => /\ Named(db, "Project", call.name) # {}
           /\ \E l \in labels["Project"] :
                 l.name = "_GENAI_FACTORY" /\ l.parent = call.name

\* C29: a verb called without a session leaves no session of its own open
\* when it returns; stated for the reading verbs, which never commit: after a
\* get or a list without a session, as many sessions are open as before.
C29_OwnSessionIsClosed ==
    (call.verb \in {"get", "list"} /\ ~call.shared)
        => opened = call.opened

\* C30: the create route of an entity kind creates a row of that kind: a POST
\* to /data-sources/ with a DataSource object of a name not yet stored goes to
\* the data-source table, leaves a data source of that name stored (so that
\* get_data_source of the name finds it), and leaves the datasets as they were.
C30_RouteCreatesItsOwnKind ==
    (/\ call.verb = "post"
     /\ SessionActive(UsedSession)
     /\ Named(call.db, call.type, call.name) = {})
        => /\ PostTable(call.type) = call.type
           /\ Succeeded
           /\ Named(db, call.type, call.name) # {}
           /\ db["Dataset"] = call.db["Dataset"]

====
